---------------------------- MODULE Spec2Model ----------------------------
(***************************************************************************)
(* A model of the two finance tool modules of the repository:              *)
(*   src/finance_tools_pro.py  (schema-inferring tools, state `pro`)       *)
(*   src/finance_tools.py      (fixed-layout "Online Retail" tools,        *)
(*                              state `basic`)                             *)
(* Text is modelled as a sequence of one-character strings where the code  *)
(* looks inside it (the column normalizer) and as a string elsewhere.      *)
(* Money amounts are integers; instants are seconds since                  *)
(* 2024-01-01T00:00:00.                                                    *)
(***************************************************************************)
EXTENDS Integers, Sequences, FiniteSets, TLC

VARIABLES
    fs,      \* the file system: path -> [exists, mtime, content]
    pro,     \* finance_tools_pro.ds : DataState
    basic,   \* finance_tools.ds : RetailData
    res,     \* the last operation, its arguments and what it returned or raised
    arg,     \* input of the pure function under check
    out      \* its output

vars == <<fs, pro, basic, res, arg, out>>

----------------------------------------------------------------------------
(* Bounds of the model *)

MaxLen == 3        \* longest header string given to _norm
MaxCols == 3       \* most columns given to _infer_schema
MaxMtime == 2      \* modification times are 1..MaxMtime
MaxLimit == 2      \* largest limit given to list_months
MaxResults == 2    \* largest max_results given to get_invoices
MaxTop == 2        \* largest top_n_clients given to summarize_transactions

----------------------------------------------------------------------------
(* Generic helpers *)

None == "<None>"

Range(s) == {s[i] : i \in DOMAIN s}

RECURSIVE SeqsUpTo(_, _)
SeqsUpTo(S, n) ==
    IF n = 0 THEN {<<>>}
    ELSE LET shorter == SeqsUpTo(S, n - 1)
         IN  shorter \cup {Append(s, c) : s \in {t \in shorter : Len(t) = n - 1}, c \in S}

IndexOf(seq, x) == CHOOSE i \in DOMAIN seq : seq[i] = x /\ \A j \in 1..(i - 1) : seq[j] # x

----------------------------------------------------------------------------
(* Column Normalizer: finance_tools_pro._norm *)

UpperChars == <<"A","B","C","D","E","F","G","H","I","J","K","L","M",
                "N","O","P","Q","R","S","T","U","V","W","X","Y","Z">>
LowerChars == <<"a","b","c","d","e","f","g","h","i","j","k","l","m",
                "n","o","p","q","r","s","t","u","v","w","x","y","z">>

\* str.lower() on one character
ToLower(c) == IF c \in Range(UpperChars) THEN LowerChars[IndexOf(UpperChars, c)] ELSE c

\* characters str.strip() removes and \s matches
IsSpace(c) == c \in {" ", "\t", "\n", "\r"}

\* the class [\s\-_] of the regular expression
IsSep(c) == IsSpace(c) \/ c \in {"-", "_"}

RECURSIVE LStrip(_)
LStrip(s) == IF s # <<>> /\ IsSpace(Head(s)) THEN LStrip(Tail(s)) ELSE s

RECURSIVE RStrip(_)
RStrip(s) == IF s # <<>> /\ IsSpace(s[Len(s)]) THEN RStrip(SubSeq(s, 1, Len(s) - 1)) ELSE s

\* s.strip().lower()
StripLower(s) == LET t == RStrip(LStrip(s)) IN [i \in DOMAIN t |-> ToLower(t[i])]

\* re.sub(r"[\s\-_]+", " ", s): every maximal run of separators becomes one space
RECURSIVE CollapseSeps(_, _)
CollapseSeps(s, inRun) ==
    IF s = <<>> THEN <<>>
    ELSE IF IsSep(Head(s))
         THEN (IF inRun THEN <<>> ELSE <<" ">>) \o CollapseSeps(Tail(s), TRUE)
         ELSE <<Head(s)>> \o CollapseSeps(Tail(s), FALSE)

\* s.replace(".", "").replace("#", "")
RECURSIVE DropDotHash(_)
DropDotHash(s) ==
    IF s = <<>> THEN <<>>
    ELSE (IF Head(s) \in {".", "#"} THEN <<>> ELSE <<Head(s)>>) \o DropDotHash(Tail(s))

_norm(s) == DropDotHash(CollapseSeps(StripLower(s), FALSE))

\* the characters as one string
RECURSIVE Join(_)
Join(s) == IF s = <<>> THEN "" ELSE Head(s) \o Join(Tail(s))

----------------------------------------------------------------------------
(* Header strings given to the normalizer on its own *)

HeaderChars == {"a", "B", " ", "-", "_", ".", "#"}

HeaderStrings == SeqsUpTo(HeaderChars, MaxLen)

Idle == [op |-> "none"]

InitNorm ==
    /\ arg \in HeaderStrings
    /\ out = <<"?">>
    /\ fs = None /\ pro = None /\ basic = None /\ res = Idle

\* one call of _norm, and a second call on its result
NormOnce ==
    /\ res.op = "none"
    /\ out' = _norm(arg)
    /\ res' = [op |-> "_norm"]
    /\ UNCHANGED <<fs, pro, basic, arg>>

NormAgain ==
    /\ res.op = "_norm"
    /\ arg' = out
    /\ out' = _norm(out)
    /\ res' = [op |-> "_norm_again"]
    /\ UNCHANGED <<fs, pro, basic>>

NextNorm == NormOnce \/ NormAgain

SpecNorm == InitNorm /\ [][NextNorm]_vars

\* C8: the column normalizer is idempotent: normalizing a normalized header
\* gives the same header (after the second call, output = input).
C8_NormIdempotent == res.op = "_norm_again" => out = arg

----------------------------------------------------------------------------
(* Schema Inference Engine: SYNONYMS, _score_schema, _choose_best,          *)
(* _infer_schema of finance_tools_pro                                       *)

Roles == <<"invoice_id", "date", "quantity", "unit_price",
           "line_total", "customer", "country", "description">>

RoleSet == Range(Roles)

SYNONYMS ==
    [invoice_id  |-> <<"invoice no", "invoiceno", "invoice", "invoice number", "orderid",
                       "order id", "order no", "billno", "bill no", "inv no", "invno",
                       "document number">>,
     date        |-> <<"invoicedate", "invoice date", "date", "order date",
                       "document date", "posting date">>,
     quantity    |-> <<"quantity", "qty", "qty.", "qnty", "units", "count">>,
     unit_price  |-> <<"unitprice", "unit price", "price", "rate", "unit cost", "cost">>,
     line_total  |-> <<"linetotal", "line total", "amount", "total", "value",
                       "net amount", "gross amount", "subtotal">>,
     customer    |-> <<"customerid", "customer id", "customer", "client", "account",
                       "buyer", "party", "sold-to", "sold to", "customer code",
                       "customer no">>,
     country     |-> <<"country", "region", "market">>,
     description |-> <<"description", "item", "product", "sku name", "name", "details">>]

\* class Schema: every role unset
EmptySchema == [r \in RoleSet |-> None]

\* a variant that takes the first column, in physical order, that is a synonym
_choose_best_physical(cols, keys) ==
    IF \E i \in DOMAIN cols : cols[i] \in Range(keys)
    THEN cols[CHOOSE i \in DOMAIN cols :
                /\ cols[i] \in Range(keys)
                /\ \A j \in 1..(i - 1) : cols[j] \notin Range(keys)]
    ELSE None

\* choose the first synonym (in the order of keys) that is a column
RECURSIVE _choose_best(_, _)
_choose_best(cols, keys) ==
    IF keys = <<>> THEN None
    ELSE IF Head(keys) \in Range(cols) THEN Head(keys)
    ELSE _choose_best(cols, Tail(keys))

_infer_schema(cols) == [r \in RoleSet |-> _choose_best(cols, SYNONYMS[r])]

\* count of the synonym groups with at least one column
_score_schema(cols) ==
    Cardinality({r \in RoleSet : \E i \in DOMAIN SYNONYMS[r] : SYNONYMS[r][i] \in Range(cols)})

----------------------------------------------------------------------------
(* Column lists given to the inference on its own *)

InferColumns == {"invoice", "order id", "date", "qty", "quantity",
                 "price", "amount", "customer", "region", "widget"}

IsInjective(s) == \A i, j \in DOMAIN s : s[i] = s[j] => i = j

InitInfer ==
    /\ arg \in {s \in SeqsUpTo(InferColumns, MaxCols) : IsInjective(s)}
    /\ out = None
    /\ fs = None /\ pro = None /\ basic = None /\ res = Idle

InferOnce ==
    /\ res.op = "none"
    /\ out' = _infer_schema(arg)
    /\ res' = [op |-> "_infer_schema"]
    /\ UNCHANGED <<fs, pro, basic, arg>>

NextInfer == InferOnce

SpecInfer == InitInfer /\ [][NextInfer]_vars

\* the synonyms of a role that are columns, and the one listed first
PresentSynonyms(r, colset) == {i \in DOMAIN SYNONYMS[r] : SYNONYMS[r][i] \in colset}

FirstListed(r, colset) ==
    IF PresentSynonyms(r, colset) = {} THEN None
    ELSE SYNONYMS[r][CHOOSE i \in PresentSynonyms(r, colset) :
                        \A j \in PresentSynonyms(r, colset) : i <= j]

\* C7: inference maps each of the 8 roles to the synonym listed first among
\* those present in the column set, to absent when none is; the result is a
\* function of the set of columns, not of their physical order.
C7_InferFirstListed ==
    res.op = "_infer_schema" =>
        \A r \in RoleSet : out[r] = FirstListed(r, Range(arg))

\* C7 witness: "order id" physically before "invoice", invoice_id = "invoice"
C7_Witness ==
    /\ res.op = "_infer_schema"
    /\ arg = <<"order id", "invoice">>
    /\ out["invoice_id"] = "invoice"
    /\ out["customer"] = None

----------------------------------------------------------------------------
(* Instants and months.  A pandas Timestamp is the number of seconds since  *)
(* 2024-01-01T00:00:00; a "YYYY-MM" token is a string.                      *)

MonthNames == <<"2024-01", "2024-02", "2024-03", "2024-04", "2024-05", "2024-06",
                "2024-07", "2024-08", "2024-09", "2024-10", "2024-11", "2024-12">>

DaysInMonth == <<31, 29, 31, 30, 31, 30, 31, 31, 30, 31, 30, 31>>

RECURSIVE DaysBefore(_)
DaysBefore(m) == IF m = 1 THEN 0 ELSE DaysBefore(m - 1) + DaysInMonth[m - 1]

\* month m, day d of the month, s seconds after midnight
Instant(m, d, s) == (DaysBefore(m) + d - 1) * 86400 + s

\* the month (1..12) an instant of 2024 falls in
MonthOfInstant(t) ==
    CHOOSE m \in DOMAIN MonthNames : Instant(m, 1, 0) <= t /\ t < Instant(m, DaysInMonth[m], 86400)

Failed(e) == [ok |-> FALSE, err |-> e, start |-> 0, end |-> 0]

\* _month_bounds of both modules.  pd.to_datetime(month + "-01",
\* errors="raise") is the first day of the month at 00:00:00 and raises on a
\* token that is no month; start + MonthEnd(1) moves a date that is not a
\* month end to the last day of its month and keeps its time of day.
_month_bounds(month) ==
    IF month \in Range(MonthNames)
    THEN LET m == IndexOf(MonthNames, month)
         IN  [ok |-> TRUE, err |-> None,
              start |-> Instant(m, 1, 0), end |-> Instant(m, DaysInMonth[m], 0)]
    ELSE Failed("ValueError")

\* The date_range argument: None, one token, or "A..B" already split at its
\* first ".." into the tokens a and b.
NoRange == [kind |-> "none", a |-> None, b |-> None]
OneMonth(a) == [kind |-> "month", a |-> a, b |-> None]
MonthRange(a, b) == [kind |-> "range", a |-> a, b |-> b]

\* _date_range_bounds (pro) and _range_bounds (basic): the same code
_date_range_bounds(dr) ==
    IF dr.kind = "range"
    THEN LET a1 == _month_bounds(dr.a)
             b1 == _month_bounds(dr.b)
         IN  IF ~a1.ok THEN a1
             ELSE IF ~b1.ok THEN b1
             ELSE [ok |-> TRUE, err |-> None, start |-> a1.start, end |-> b1.end]
    ELSE _month_bounds(dr.a)

\* (col >= start) & (col <= end) on one timestamp
InBounds(t, bounds) == t >= bounds.start /\ t <= bounds.end

----------------------------------------------------------------------------
(* Date ranges given to the resolver on its own, with a probe instant that  *)
(* is put through the date filter                                           *)

RangeTokens == {"2024-01", "2024-02", "2024-03", "2024-04", "2024-13"}

InitRange ==
    /\ arg \in [dr : {OneMonth(a) : a \in RangeTokens}
                       \cup {MonthRange(a, b) : a, b \in RangeTokens},
                t  : {Instant(1, 31, 43200), Instant(2, 29, 86399), Instant(3, 1, 0),
                      Instant(3, 31, 0), Instant(4, 30, 1)}]
    /\ out = None
    /\ fs = None /\ pro = None /\ basic = None /\ res = Idle

ResolveRange ==
    /\ res.op = "none"
    /\ LET b == _date_range_bounds(arg.dr)
       IN  out' = [bounds |-> b, keep |-> b.ok /\ InBounds(arg.t, b)]
    /\ res' = [op |-> "_date_range_bounds"]
    /\ UNCHANGED <<fs, pro, basic, arg>>

NextRange == ResolveRange

SpecRange == InitRange /\ [][NextRange]_vars

FirstToken(dr) == dr.a
LastToken(dr) == IF dr.kind = "range" THEN dr.b ELSE dr.a

\* C4: for valid month tokens the resolver returns [first instant of month
\* A, last instant (23:59:59 of the last day) of month B], and the inclusive
\* filter keeps every instant of the months A..B.
C4_BoundsCoverMonths ==
    (res.op = "_date_range_bounds" /\ out.bounds.ok) =>
        LET ma == IndexOf(MonthNames, FirstToken(arg.dr))
            mb == IndexOf(MonthNames, LastToken(arg.dr))
        IN  /\ out.bounds.start = Instant(ma, 1, 0)
            /\ out.bounds.end = Instant(mb, DaysInMonth[mb], 86399)
            /\ (ma <= MonthOfInstant(arg.t) /\ MonthOfInstant(arg.t) <= mb) => out.keep

----------------------------------------------------------------------------
(* Cells and tables.  A cell of a DataFrame is a number, a text, a         *)
(* Timestamp, NaN (a missing value) or NaT (a missing Timestamp).          *)

Num(n)  == [k |-> "num",  n |-> n, s |-> ""]
Text(s) == [k |-> "text", n |-> 0, s |-> s]
Ts(t)   == [k |-> "ts",   n |-> t, s |-> ""]
NaN     == [k |-> "nan",  n |-> 0, s |-> ""]
NaT     == [k |-> "nat",  n |-> 0, s |-> ""]

IsMissing(c) == c.k \in {"nan", "nat"}

\* texts that parse as numbers, and their values
NumeralText  == <<"-2", "-1", "0", "1", "2", "3", "4", "5", "7", "10", "17850", "13047">>
NumeralValue == <<0 - 2, 0 - 1, 0, 1, 2, 3, 4, 5, 7, 10, 17850, 13047>>

\* texts that parse as dates, and their instants
DateText  == <<"2024-01-05", "2024-02-03", "2024-02-05", "2024-03-01", "2024-03-31">>
DateValue == <<Instant(1, 5, 0), Instant(2, 3, 0), Instant(2, 5, 0),
               Instant(3, 1, 0), Instant(3, 31, 0)>>

\* pd.to_numeric(errors="coerce") on one cell; a Timestamp gives its epoch count
ToNumeric(c) ==
    CASE c.k = "num"  -> c
      [] c.k = "text" -> IF c.s \in Range(NumeralText)
                         THEN Num(NumeralValue[IndexOf(NumeralText, c.s)]) ELSE NaN
      [] c.k = "ts"   -> Num(c.n)
      [] OTHER        -> NaN

\* pd.to_datetime(errors="coerce") on one cell; a number is an epoch count,
\* an instant of 1970 (before every instant of the tables)
ToDatetime(c) ==
    CASE c.k = "ts"   -> c
      [] c.k = "text" -> IF c.s \in Range(DateText)
                         THEN Ts(DateValue[IndexOf(DateText, c.s)]) ELSE NaT
      [] c.k = "num"  -> Ts(0 - 1704067200)
      [] OTHER        -> NaT

\* a * b on two to_numeric results: NaN when either is NaN
Product(a, b) == IF a.k = "num" /\ b.k = "num" THEN Num(a.n * b.n) ELSE NaN

\* .fillna(0) on one numeric cell
FillZero(c) == IF c.k = "num" THEN c.n ELSE 0

NoDf == [loaded |-> FALSE, cols |-> <<>>, rows |-> <<>>]
Df(cols, rows) == [loaded |-> TRUE, cols |-> cols, rows |-> rows]

HasCol(df, c) == c \in Range(df.cols)
Cell(df, i, c) == df.rows[i][IndexOf(df.cols, c)]
RowIds(df) == DOMAIN df.rows

\* df[c] = f(df[c]) for every row
MapCol(df, c, F(_)) ==
    [df EXCEPT !.rows = [i \in DOMAIN df.rows |->
        [j \in DOMAIN df.cols |-> IF df.cols[j] = c THEN F(df.rows[i][j]) ELSE df.rows[i][j]]]]

\* a datetime64 column: what .dt and a comparison with a Timestamp need
IsDatetimeCol(df, c) == \A i \in RowIds(df) : Cell(df, i, c).k \in {"ts", "nat"}

----------------------------------------------------------------------------
(* The files.  A file holds a workbook: a sequence of sheets, each with a  *)
(* name, whether pandas can parse it, its raw header strings and its rows. *)
(* A CSV file holds one table.                                              *)

Sheet(name, ok, header, rows) == [name |-> name, ok |-> ok, header |-> header, rows |-> rows]

\* the end-to-end scenario of the specification, after a sheet of notes
WbScenario ==
    <<Sheet("Notes", TRUE, <<<<"R", "e", "m", "a", "r", "k">>>>, <<<<Text("hello")>>>>),
      Sheet("Sales", TRUE,
            <<<<"I", "n", "v", "o", "i", "c", "e">>,
              <<"D", "a", "t", "e">>,
              <<"Q", "t", "y">>,
              <<"P", "r", "i", "c", "e">>>>,
            <<<<Text("A1"), Ts(Instant(1, 5, 0)),  Num(2),  Num(10)>>,
              <<Text("A1"), Ts(Instant(1, 6, 0)),  Num(0 - 1), Num(10)>>,
              <<Text("B2"), Ts(Instant(1, 10, 0)), Num(1),  Num(5)>>>>)>>

\* the UCI "Online Retail" layout, with missing cells
WbRetail ==
    <<Sheet("Online Retail", TRUE,
            <<<<"I", "n", "v", "o", "i", "c", "e", "N", "o">>,
              <<"I", "n", "v", "o", "i", "c", "e", "D", "a", "t", "e">>,
              <<"Q", "u", "a", "n", "t", "i", "t", "y">>,
              <<"U", "n", "i", "t", "P", "r", "i", "c", "e">>,
              <<"C", "u", "s", "t", "o", "m", "e", "r", "I", "D">>,
              <<"C", "o", "u", "n", "t", "r", "y">>>>,
            <<<<Text("536365"), Ts(Instant(1, 31, 43200)), Num(2), Num(3), Num(17850), Text("UK")>>,
              <<Text("536365"), NaT, Num(0 - 1), Num(3), Num(17850), Text("UK")>>,
              <<Text("536366"), Ts(Instant(2, 10, 0)), NaN, Num(5), Num(13047), Text("FR")>>,
              <<NaN, Ts(Instant(2, 11, 0)), Num(1), Num(4), NaN, Text("FR")>>,
              <<Text("C536367"), Ts(Instant(2, 10, 0)), Num(0 - 2), Num(5), Num(13047), Text("FR")>>>>)>>

\* a second "Online Retail" workbook
WbRetail2 ==
    <<Sheet("Online Retail", TRUE,
            <<<<"I", "n", "v", "o", "i", "c", "e", "N", "o">>,
              <<"I", "n", "v", "o", "i", "c", "e", "D", "a", "t", "e">>,
              <<"Q", "u", "a", "n", "t", "i", "t", "y">>,
              <<"U", "n", "i", "t", "P", "r", "i", "c", "e">>,
              <<"C", "u", "s", "t", "o", "m", "e", "r", "I", "D">>,
              <<"C", "o", "u", "n", "t", "r", "y">>>>,
            <<<<Text("540001"), Ts(Instant(3, 2, 0)), Num(1), Num(7), Num(13047), Text("DE")>>,
              <<Text("540002"), Ts(Instant(3, 1, 0)), Num(1), Num(7), Num(17850), Text("UK")>>>>)>>

\* a ledger with a total column, dates typed as text, behind a sheet that
\* does not parse
WbLedger ==
    <<Sheet("Broken", FALSE, <<>>, <<>>),
      Sheet("Ledger", TRUE,
            <<<<"O", "r", "d", "e", "r", "-", "I", "D">>,
              <<" ", "P", "o", "s", "t", "i", "n", "g", "_", "D", "a", "t", "e">>,
              <<"A", "m", "o", "u", "n", "t">>,
              <<"Q", "t", "y", ".">>,
              <<"U", "n", "i", "t", " ", " ", "P", "r", "i", "c", "e">>,
              <<"C", "l", "i", "e", "n", "t", " ", "#">>>>,
            <<<<Text("S1"), Text("2024-03-01"), Num(7), Num(1), Num(5), Text("bolt")>>,
              <<Text("S2"), Text("soon"),       Num(4), Num(0 - 1), Num(4), Text("bolt")>>,
              <<Text("S3"), Text("2024-03-31"), Num(3), Text("n/a"), Num(1), Text("acme")>>,
              <<Text("S4"), Text("2024-03-01"), Num(0 - 4), Text("-1"), Num(4), Text("acme")>>>>)>>

\* a delimited-text file
CsvOrders ==
    <<Sheet("", TRUE,
            <<<<"i", "n", "v", "o", "i", "c", "e">>,
              <<"d", "a", "t", "e">>,
              <<"t", "o", "t", "a", "l">>,
              <<"c", "u", "s", "t", "o", "m", "e", "r">>,
              <<"r", "e", "g", "i", "o", "n">>>>,
            <<<<Text("X1"), Text("2024-02-03"), Num(10), Text("bolt"), Text("south")>>,
              <<Text("X2"), Text("2024-02-05"), Num(10), Text("acme"), Text("north")>>,
              <<Text("X3"), Text("2024-01-05"), Num(4),  Text("acme"), Text("north")>>>>)>>

\* a file that is no table
NoContent == <<>>

\* a workbook whose sheets all fail to parse
WbBroken == <<Sheet("Cover", FALSE, <<>>, <<>>), Sheet("Chart", FALSE, <<>>, <<>>)>>

Contents == <<WbScenario, WbRetail, WbLedger, CsvOrders, WbRetail2, NoContent, WbBroken>>

PathA == "docs/a.xlsx"
PathB == "docs/b.csv"
PathC == "docs/c.txt"
PathR == "docs/r.xlsx"
PathOut == "etc/x.csv"
PathGone == "docs/gone.csv"

Paths == {PathA, PathB, PathC, PathR, PathOut, PathGone}

\* Path.suffix.lower()
Suffix(p) ==
    CASE p \in {PathA, PathR} -> ".xlsx"
      [] p \in {PathB, PathOut, PathGone} -> ".csv"
      [] OTHER -> ".txt"

\* _is_within_base: the base directory is docs/
_is_within_base(p) == p # PathOut

File(exists, mtime, content) == [exists |-> exists, mtime |-> mtime, content |-> content]

----------------------------------------------------------------------------
(* Table Loader of finance_tools_pro: _norm_cols, _load_any, _ensure_loaded *)

NoMtime == 0 - 1     \* last_mtime = None

\* the DataState after construction
NewDataState ==
    [path |-> None, df |-> NoDf, last_mtime |-> NoMtime,
     schema |-> EmptySchema, sheet_name |-> None]

\* finance_tools.ds: the RetailData after construction
NewRetailData == [path |-> None, df |-> NoDf, last_loaded_mtime |-> NoMtime]

\* _norm_cols on a parsed sheet: the DataFrame with normalized column names
_norm_cols(sheet) == Df([j \in DOMAIN sheet.header |-> Join(_norm(sheet.header[j]))], sheet.rows)

\* lines 71-73 of _load_any on one sheet: read_excel, _norm_cols, _score_schema
ScoredSheet(sheet, df) ==
    [name |-> sheet.name, ok |-> sheet.ok, df |-> df, score |-> _score_schema(df.cols)]

ParsedContents(contents) ==
    [c \in DOMAIN contents |->
        [i \in DOMAIN contents[c] |-> ScoredSheet(contents[c][i], _norm_cols(contents[c][i]))]]

\* every sheet of every file content as pandas parses it, headers
\* normalized, with its schema score
Parsed == ParsedContents(Contents)

\* the loop over x.sheet_names: the index of the kept sheet (0: none), a
\* sheet replacing the best so far only with a strictly greater score, a
\* sheet that raises being skipped
RECURSIVE BestSheet(_, _, _, _)
BestSheet(sheets, i, best_score, best) ==
    IF i > Len(sheets) THEN best
    ELSE IF sheets[i].ok /\ sheets[i].score > best_score
         THEN BestSheet(sheets, i + 1, sheets[i].score, i)
         ELSE BestSheet(sheets, i + 1, best_score, best)

Raised(e, ds) == [ok |-> FALSE, err |-> e, ds |-> ds, df |-> NoDf]

\* lines 78-83 of _load_any: the best sheet, or the first sheet read again
KeptSheet(ds, sheets, best) ==
    IF best # 0
    THEN [ok |-> TRUE, err |-> None, df |-> sheets[best].df,
          ds |-> [ds EXCEPT !.sheet_name = sheets[best].name]]
    ELSE IF sheets[1].ok
    THEN [ok |-> TRUE, err |-> None, df |-> sheets[1].df,
          ds |-> [ds EXCEPT !.sheet_name = sheets[1].name]]
    ELSE Raised("ValueError", ds)

\* _load_any(path) on a file holding sheets: the DataFrame read, and ds
\* with sheet_name set for a workbook
_load_any(ds, sheets) ==
    IF Suffix(ds.path) \in {".xlsx", ".xls"}
    THEN IF sheets = <<>> THEN Raised("ValueError", ds)          \* pd.ExcelFile fails
         ELSE KeptSheet(ds, sheets, BestSheet(sheets, 1, 0 - 1, 0))
    ELSE IF Suffix(ds.path) = ".csv"
    THEN IF sheets = <<>> \/ ~sheets[1].ok THEN Raised("ParserError", ds)
         ELSE [ok |-> TRUE, err |-> None, df |-> sheets[1].df, ds |-> ds]
    ELSE Raised("ValueError", ds)                             \* unsupported file type

\* line 149: the date column, when inferred, goes through to_datetime
CoerceDate(df, sch) ==
    IF sch["date"] # None /\ HasCol(df, sch["date"])
    THEN MapCol(df, sch["date"], ToDatetime) ELSE df

\* line 152: no line_total role, but quantity and unit_price
NeedsTotal(sch) ==
    sch["line_total"] = None /\ sch["quantity"] # None /\ sch["unit_price"] # None

\* lines 154-155: the column __computed_total__ and the role pointing at it
WithComputedTotal(df, sch) ==
    IF NeedsTotal(sch)
    THEN Df(Append(df.cols, "__computed_total__"),
            [i \in DOMAIN df.rows |->
                Append(df.rows[i],
                       Product(ToNumeric(Cell(df, i, sch["quantity"])),
                               ToNumeric(Cell(df, i, sch["unit_price"]))))])
    ELSE df

WithLineTotal(sch) ==
    IF NeedsTotal(sch) THEN [sch EXCEPT !["line_total"] = "__computed_total__"] ELSE sch

\* lines 159-161: store table, modification time and schema
Stored(ds, df, mtime, sch) ==
    [ds EXCEPT !.df = WithComputedTotal(CoerceDate(df, sch), sch),
               !.last_mtime = mtime,
               !.schema = WithLineTotal(sch)]

\* lines 146-161 of _ensure_loaded: infer, coerce the date column, build the
\* computed total, store
StoreLoaded(ds, df, mtime) == Stored(ds, df, mtime, _infer_schema(df.cols))

Ensured(ok, e, ds, reloaded) == [ok |-> ok, err |-> e, ds |-> ds, reloaded |-> reloaded]

\* ds is left as it was when the load raises
AfterLoad(ds, ld, mtime) ==
    IF ~ld.ok THEN Ensured(FALSE, ld.err, ds, FALSE)
    ELSE Ensured(TRUE, None, StoreLoaded(ld.ds, ld.df, mtime), TRUE)

\* lines 144-161: load, infer, store
Reload(ds, files) ==
    AfterLoad(ds, _load_any(ds, Parsed[files[ds.path].content]), files[ds.path].mtime)

\* a variant that never looks at the modification time once a table is cached
_ensure_loaded_sticky(ds, files) ==
    IF ds.path = None THEN Ensured(FALSE, "ValueError", ds, FALSE)
    ELSE IF ~files[ds.path].exists THEN Ensured(FALSE, "FileNotFoundError", ds, FALSE)
    ELSE IF ds.df.loaded THEN Ensured(TRUE, None, ds, FALSE)
    ELSE Reload(ds, files)

\* _ensure_loaded(): ok or the exception raised, the DataState after it, and
\* whether the table was loaded again
_ensure_loaded(ds, files) ==
    IF ds.path = None THEN Ensured(FALSE, "ValueError", ds, FALSE)
    ELSE IF ~files[ds.path].exists THEN Ensured(FALSE, "FileNotFoundError", ds, FALSE)
    ELSE IF ds.df.loaded /\ ds.last_mtime = files[ds.path].mtime
    THEN Ensured(TRUE, None, ds, FALSE)
    ELSE Reload(ds, files)

----------------------------------------------------------------------------
(* Ordering and slicing helpers of the queries *)

\* the texts of the model in Python's string order
TextOrder ==
    <<"", "-1", "-2", "0", "1", "10", "13047", "17850", "17850.0", "1970-01", "2",
      "2024-01", "2024-01-05", "2024-02", "2024-02-03", "2024-02-05", "2024-03",
      "2024-03-01", "2024-03-31", "2024-04", "2024-05", "2024-06", "2024-07",
      "2024-08", "2024-09", "2024-10", "2024-11", "2024-12", "3", "4", "5",
      "536365", "536366", "540001", "540002", "7",
      "A1", "B2", "C536367", "DE", "FR", "NaT", "S1", "S2", "S3", "S4", "UK", "X1", "X2", "X3",
      "acme", "bolt", "hello", "n/a", "nan", "north", "soon", "south">>

StrLess(a, b) == IndexOf(TextOrder, a) < IndexOf(TextOrder, b)

\* sorted(S, reverse=True) on a set of texts
RECURSIVE SortedDesc(_)
SortedDesc(S) ==
    IF S = {} THEN <<>>
    ELSE LET top == CHOOSE x \in S : \A y \in S \ {x} : StrLess(y, x)
         IN  <<top>> \o SortedDesc(S \ {top})

\* seq[:n] and head(n): the first n, or all but the last -n when n < 0
Take(seq, n) ==
    IF n >= 0 THEN SubSeq(seq, 1, IF n < Len(seq) THEN n ELSE Len(seq))
    ELSE SubSeq(seq, 1, IF Len(seq) + n > 0 THEN Len(seq) + n ELSE 0)

\* the sum of f over the finite set S
RECURSIVE SumOf(_, _)
SumOf(f, S) == IF S = {} THEN 0 ELSE LET x == CHOOSE x \in S : TRUE IN f[x] + SumOf(f, S \ {x})

\* str(n) for the integers of the tables
IntStr(n) == NumeralText[IndexOf(NumeralValue, n)]

\* astype(str) / str(key) of one cell of column c: a number of a column
\* with missing values is a float
CellStr(df, c, cell) ==
    CASE cell.k = "text" -> cell.s
      [] cell.k = "num"  -> IF \E i \in RowIds(df) : IsMissing(Cell(df, i, c))
                            THEN IntStr(cell.n) \o ".0" ELSE IntStr(cell.n)
      [] cell.k = "nat"  -> "NaT"
      [] cell.k = "nan"  -> "nan"
      [] OTHER           -> "2024-01"

\* the order groupby(sort=True) puts two keys of one column in
KeyLess(a, b) ==
    CASE a.k = "num" /\ b.k = "num" -> a.n < b.n
      [] a.k = "ts" /\ b.k = "ts" -> a.n < b.n
      [] a.k = "text" /\ b.k = "text" -> StrLess(a.s, b.s)
      [] OTHER -> a.k = "num" /\ b.k # "num"      \* mixed keys: numbers first

\* the month a Timestamp falls in, as to_period("M").astype(str) prints it
PeriodStr(cell) ==
    IF cell.k = "nat" THEN "NaT"
    ELSE IF cell.n < 0 THEN "1970-01"
    ELSE MonthNames[MonthOfInstant(cell.n)]

\* the rows of ids that pass  to_numeric(df[q], errors="coerce").fillna(0) >= 0
NonReturns(df, q, ids) == {i \in ids : FillZero(ToNumeric(Cell(df, i, q))) >= 0}

\* the rows of ids that pass  (df[d] >= start) & (df[d] <= end)
InWindow(df, d, ids, bounds) ==
    {i \in ids : Cell(df, i, d).k = "ts" /\ InBounds(Cell(df, i, d).n, bounds)}

Mapped(df, sch, r) == sch[r] # None /\ HasCol(df, sch[r])

----------------------------------------------------------------------------
(* Tools of finance_tools_pro.  Each operator gives what the tool returns  *)
(* or raises on the DataState left by _ensure_loaded.                      *)

Ok(v) == [ok |-> TRUE, err |-> None, value |-> v]
Err(e) == [ok |-> FALSE, err |-> e, value |-> None]

\* show_detected_schema, after _ensure_loaded
ShowValue(ds) ==
    [path |-> ds.path, sheet |-> ds.sheet_name, schema |-> ds.schema,
     columns |-> ds.df.cols, row_count |-> Len(ds.df.rows)]

\* a variant that takes any column name
RECURSIVE ApplyOverride_unchecked(_, _, _)
ApplyOverride_unchecked(sch, valid, mapping) ==
    IF mapping = <<>> THEN [ok |-> TRUE, err |-> None, schema |-> sch]
    ELSE IF Head(mapping)[1] \notin RoleSet
    THEN [ok |-> FALSE, err |-> "ValueError: Unknown schema key", schema |-> sch]
    ELSE ApplyOverride_unchecked([sch EXCEPT ![Head(mapping)[1]] = Head(mapping)[2]],
                                 valid, Tail(mapping))

\* the loop of override_schema over mapping.items(); sch is ds.schema
\* itself, so every setattr is kept when a later entry raises
RECURSIVE ApplyOverride(_, _, _)
ApplyOverride(sch, valid, mapping) ==
    IF mapping = <<>> THEN [ok |-> TRUE, err |-> None, schema |-> sch]
    ELSE LET k == Head(mapping)[1]
             v == Head(mapping)[2]
         IN  IF k \notin RoleSet
             THEN [ok |-> FALSE, err |-> "ValueError: Unknown schema key", schema |-> sch]
             ELSE IF v # None /\ v \notin valid
             THEN [ok |-> FALSE, err |-> "ValueError: Column not found", schema |-> sch]
             ELSE ApplyOverride([sch EXCEPT ![k] = v], valid, Tail(mapping))

\* the months of the date column in row order, duplicates dropped by unique()
MonthSet(df, d) == {PeriodStr(Cell(df, i, d)) : i \in RowIds(df)}

\* list_months(limit), after _ensure_loaded.  astype(str) comes before
\* dropna(), so the period of a NaT is the text "NaT" and is not dropped.
ListMonthsValue(ds, limit) ==
    IF ~Mapped(ds.df, ds.schema, "date") THEN Ok(<<>>)
    ELSE IF ~IsDatetimeCol(ds.df, ds.schema["date"]) THEN Err("AttributeError")
    ELSE Ok(Take(SortedDesc(MonthSet(ds.df, ds.schema["date"])), limit))

\* line 308-309: the returns filter of get_invoices
ReturnsFiltered(df, sch, include_returns) ==
    IF ~include_returns /\ Mapped(df, sch, "quantity")
    THEN NonReturns(df, sch["quantity"], RowIds(df)) ELSE RowIds(df)

\* lines 315-316: the customer filter, on the text of the customer cell
CustomerFiltered(df, sch, customer, ids) ==
    IF customer # None /\ Mapped(df, sch, "customer")
    THEN {i \in ids : CellStr(df, sch["customer"], Cell(df, i, sch["customer"])) = customer}
    ELSE ids

Kept(ids) == [ok |-> TRUE, err |-> None, kept |-> ids]
NotKept(e) == [ok |-> FALSE, err |-> e, kept |-> {}]

\* lines 311-313: the date filter between the bounds of the range
DateFiltered(df, sch, customer, bounds, ids) ==
    IF ~bounds.ok THEN NotKept("ValueError")
    ELSE IF ~IsDatetimeCol(df, sch["date"]) THEN NotKept("TypeError")
    ELSE Kept(CustomerFiltered(df, sch, customer, InWindow(df, sch["date"], ids, bounds)))

\* the filters of get_invoices (lines 307-316): the rows kept, or the exception
InvoiceFilter(ds, date_range, customer, include_returns) ==
    IF date_range.kind # "none" /\ Mapped(ds.df, ds.schema, "date")
    THEN DateFiltered(ds.df, ds.schema, customer, _date_range_bounds(date_range),
                      ReturnsFiltered(ds.df, ds.schema, include_returns))
    ELSE Kept(CustomerFiltered(ds.df, ds.schema, customer,
                               ReturnsFiltered(ds.df, ds.schema, include_returns)))

\* lines 318-374 on the outcome f of the filters.  With rows left, line 347
\* joins the Series of df.groupby(group_key).size(), which has no name, and
\* DataFrame.join raises ValueError("Other Series must have a name"): no
\* aggregate is ever returned.
Aggregated(f) ==
    IF ~f.ok THEN [ok |-> FALSE, err |-> f.err, value |-> <<>>, kept |-> {}]
    ELSE IF f.kept = {} THEN [ok |-> TRUE, err |-> None, value |-> <<>>, kept |-> {}]
    ELSE [ok |-> FALSE, err |-> "ValueError: Other Series must have a name",
          value |-> <<>>, kept |-> f.kept]

\* get_invoices, after _ensure_loaded
GetInvoicesValue(ds, date_range, customer, include_returns, max_results) ==
    Aggregated(InvoiceFilter(ds, date_range, customer, include_returns))

Abs(n) == IF n < 0 THEN 0 - n ELSE n

\* a variant that counts a return as a sale
SummaryTotals_unsigned(df, sch, ids) ==
    [i \in ids |->
        IF Mapped(df, sch, "line_total")
        THEN Abs(FillZero(ToNumeric(Cell(df, i, sch["line_total"]))))
        ELSE IF Mapped(df, sch, "quantity") /\ Mapped(df, sch, "unit_price")
        THEN Abs(FillZero(ToNumeric(Cell(df, i, sch["quantity"])))
                 * FillZero(ToNumeric(Cell(df, i, sch["unit_price"]))))
        ELSE 1]

\* the totals of summarize_transactions (lines 442-447), one per row of ids
SummaryTotals(df, sch, ids) ==
    [i \in ids |->
        IF Mapped(df, sch, "line_total")
        THEN FillZero(ToNumeric(Cell(df, i, sch["line_total"])))
        ELSE IF Mapped(df, sch, "quantity") /\ Mapped(df, sch, "unit_price")
        THEN FillZero(ToNumeric(Cell(df, i, sch["quantity"])))
                 * FillZero(ToNumeric(Cell(df, i, sch["unit_price"])))
        ELSE 1]

\* groupby(customer)["__totals__"].sum(): one group per non-missing key, in
\* key order; then sort_values(ascending=False) with the default quicksort,
\* which is not a stable sort: equal sums stay in key order when the sort
\* happens to be stable and may come out reversed when it is not
RECURSIVE RankClients(_, _, _, _)
RankClients(df, c, groups, stable) ==
    IF groups = {} THEN <<>>
    ELSE LET top == CHOOSE g \in groups : \A h \in groups \ {g} :
                        \/ g.total > h.total
                        \/ g.total = h.total /\ (stable <=> KeyLess(g.key, h.key))
         IN  <<[customer |-> CellStr(df, c, top.key), total |-> top.total]>>
                 \o RankClients(df, c, groups \ {top}, stable)

ClientGroups(df, c, ids, totals) ==
    {[key |-> k, total |-> SumOf(totals, {i \in ids : Cell(df, i, c) = k})] :
        k \in {Cell(df, i, c) : i \in {j \in ids : ~IsMissing(Cell(df, j, c))}}}

\* a variant that keeps the returns whatever include_returns says
SummaryRows_keep_returns(df, sch, bounds, include_returns) ==
    InWindow(df, sch["date"], RowIds(df), bounds)

\* the month window and the returns filter of summarize_transactions
SummaryRows(df, sch, bounds, include_returns) ==
    IF ~include_returns /\ Mapped(df, sch, "quantity")
    THEN NonReturns(df, sch["quantity"], InWindow(df, sch["date"], RowIds(df), bounds))
    ELSE InWindow(df, sch["date"], RowIds(df), bounds)

\* lines 451-457: the top clients, when a customer role is mapped
TopClients(df, sch, ids, totals, top_n_clients, stable) ==
    IF Mapped(df, sch, "customer")
    THEN Take(RankClients(df, sch["customer"],
                          ClientGroups(df, sch["customer"], ids, totals), stable),
              top_n_clients)
    ELSE <<>>

\* lines 438-471: the answer over the rows ids with their totals
Summary(df, sch, ids, totals, top_n_clients, stable) ==
    IF ids = {}
    THEN Ok([revenue |-> 0, top_clients |-> <<>>, message |-> "No data for this month."])
    ELSE Ok([revenue |-> SumOf(totals, ids),
             top_clients |-> TopClients(df, sch, ids, totals, top_n_clients, stable),
             message |-> None])

SummaryOf(df, sch, ids, top_n_clients, stable) ==
    Summary(df, sch, ids, SummaryTotals(df, sch, ids), top_n_clients, stable)

\* lines 432-436 on the bounds of the month
SummaryIn(df, sch, bounds, include_returns, top_n_clients, stable) ==
    IF ~bounds.ok THEN Err("ValueError")
    ELSE IF ~IsDatetimeCol(df, sch["date"]) THEN Err("TypeError")
    ELSE SummaryOf(df, sch, SummaryRows(df, sch, bounds, include_returns),
                   top_n_clients, stable)

\* summarize_transactions, after _ensure_loaded
SummarizeValue(ds, month, include_returns, top_n_clients, stable) ==
    IF ~Mapped(ds.df, ds.schema, "date")
    THEN Ok([message |-> "No usable date column detected."])
    ELSE SummaryIn(ds.df, ds.schema, _month_bounds(month), include_returns,
                   top_n_clients, stable)

----------------------------------------------------------------------------
(* The state machine of finance_tools_pro over a file system *)

XlsxContents == {1, 2, 3, 7}

InitFiles(c) ==
    [p \in Paths |->
        CASE p = PathA    -> File(TRUE, 1, c)
          [] p = PathB    -> File(TRUE, 1, 4)
          [] p = PathR    -> File(TRUE, 1, 5)
          [] p = PathC    -> File(TRUE, 1, 6)
          [] p = PathOut  -> File(TRUE, 1, 4)
          [] OTHER        -> File(FALSE, 0, 6)]

Init ==
    /\ fs \in {InitFiles(c) : c \in XlsxContents}
    /\ pro = NewDataState
    /\ basic = NewRetailData
    /\ res = Idle
    /\ arg = None /\ out = None

\* the file is written: new content and any modification time, or the same
\* content with another modification time
Modify(p, c, m) ==
    /\ <<c, m>> # <<fs[p].content, fs[p].mtime>> \/ ~fs[p].exists
    /\ fs' = [fs EXCEPT ![p] = File(TRUE, m, c)]
    /\ res' = [op |-> "modify"]
    /\ UNCHANGED <<pro, basic, arg, out>>

\* the file is removed
Delete(p) ==
    /\ fs[p].exists
    /\ fs' = [fs EXCEPT ![p] = File(FALSE, 0, 6)]
    /\ res' = [op |-> "delete"]
    /\ UNCHANGED <<pro, basic, arg, out>>

\* lines 244-245 of set_data_source: what is returned after _ensure_loaded
SetDataSourceAnswer(el) ==
    [ds |-> el.ds,
     out |-> IF el.ok
             THEN Ok([path |-> el.ds.path, sheet |-> el.ds.sheet_name,
                      schema |-> el.ds.schema, rows |-> Len(el.ds.df.rows)])
             ELSE Err(el.err)]

\* set_data_source(path) of finance_tools_pro: the DataState and the result
SetDataSourceResult(ds, files, p) ==
    IF ~_is_within_base(p) THEN [ds |-> ds, out |-> Err("PermissionError")]
    ELSE IF ~files[p].exists THEN [ds |-> ds, out |-> Err("FileNotFoundError")]
    ELSE SetDataSourceAnswer(
             _ensure_loaded([ds EXCEPT !.path = p, !.df = NoDf, !.last_mtime = NoMtime], files))

SourceSet(r, p) ==
    /\ pro' = r.ds
    /\ res' = [op |-> "set_data_source", args |-> [path |-> p],
               prev |-> pro.path, out |-> r.out]

ProSetDataSource(p) ==
    /\ SourceSet(SetDataSourceResult(pro, fs, p), p)
    /\ UNCHANGED <<fs, basic, arg, out>>

\* a query tool: el is what _ensure_loaded left, answer what the tool returns
Queried(el, name, a, answer) ==
    /\ pro' = el.ds
    /\ res' = [op |-> name, args |-> a,
               reloaded |-> el.reloaded,
               dropped |-> IF el.reloaded THEN pro.schema ELSE EmptySchema,
               out |-> answer]

SchemaShown(el) ==
    Queried(el, "show_detected_schema", <<>>,
            IF el.ok THEN Ok(ShowValue(el.ds)) ELSE Err(el.err))

ProShowSchema ==
    /\ SchemaShown(_ensure_loaded(pro, fs))
    /\ UNCHANGED <<fs, basic, arg, out>>

\* override_schema after its loop: the entries applied stay in ds.schema
Overridden(el, ao, mapping) ==
    /\ pro' = [el.ds EXCEPT !.schema = ao.schema]
    /\ res' = [op |-> "override_schema", args |-> [mapping |-> mapping],
               out |-> IF ao.ok THEN Ok(ao.schema) ELSE Err(ao.err)]

SchemaOverridden(el, mapping) ==
    IF ~el.ok
    THEN /\ pro' = el.ds
         /\ res' = [op |-> "override_schema", args |-> [mapping |-> mapping],
                    out |-> Err(el.err)]
    ELSE Overridden(el, ApplyOverride(el.ds.schema, Range(el.ds.df.cols), mapping), mapping)

ProOverrideSchema(mapping) ==
    /\ SchemaOverridden(_ensure_loaded(pro, fs), mapping)
    /\ UNCHANGED <<fs, basic, arg, out>>

MonthsListed(el, limit) ==
    Queried(el, "list_months", [limit |-> limit],
            IF el.ok THEN ListMonthsValue(el.ds, limit) ELSE Err(el.err))

ProListMonths(limit) ==
    /\ MonthsListed(_ensure_loaded(pro, fs), limit)
    /\ UNCHANGED <<fs, basic, arg, out>>

InvoicesGot(el, a) ==
    Queried(el, "get_invoices", a,
            IF el.ok
            THEN GetInvoicesValue(el.ds, a.date_range, a.customer,
                                  a.include_returns, a.max_results)
            ELSE [ok |-> FALSE, err |-> el.err, value |-> <<>>, kept |-> {}])

ProGetInvoices(a) ==
    /\ InvoicesGot(_ensure_loaded(pro, fs), a)
    /\ UNCHANGED <<fs, basic, arg, out>>

Summarized(el, a, stable) ==
    Queried(el, "summarize_transactions", a,
            IF el.ok
            THEN SummarizeValue(el.ds, a.month, a.include_returns, a.top_n_clients, stable)
            ELSE Err(el.err))

ProSummarize(a) ==
    /\ \E stable \in BOOLEAN : Summarized(_ensure_loaded(pro, fs), a, stable)
    /\ UNCHANGED <<fs, basic, arg, out>>

\* the arguments the tools are called with
ProPaths == {PathA, PathB, PathC, PathOut, PathGone}

OverrideInputs ==
    {<< <<"unit_price", "qty">> >>,
     << <<"date", "invoice">> >>,
     << <<"line_total", None>> >>,
     << <<"date", None>> >>,
     << <<"quantity", "price">>, <<"bogus", "x">> >>,
     << <<"customer", "region">>, <<"date", "nope">> >>}

InvoiceArgs(dr, c, ir, mr) ==
    [date_range |-> dr, customer |-> c, include_returns |-> ir, max_results |-> mr]

SummaryArgs(m, ir, n) == [month |-> m, include_returns |-> ir, top_n_clients |-> n]

DefaultInvoiceArgs == InvoiceArgs(NoRange, None, TRUE, MaxResults)
DefaultSummaryArgs == SummaryArgs("2024-01", TRUE, MaxTop)

InvoiceInputs ==
    {InvoiceArgs(dr, None, ir, mr) :
        dr \in {NoRange, OneMonth("2024-01"), MonthRange("2024-01", "2024-02"),
                OneMonth("2024-13")},
        ir \in BOOLEAN, mr \in {0, MaxResults}}
    \cup {InvoiceArgs(NoRange, c, FALSE, MaxResults) : c \in {"acme", "17850", "nobody"}}
    \cup {InvoiceArgs(OneMonth("2024-13"), "nobody", TRUE, MaxResults)}

SummaryInputs ==
    {SummaryArgs(m, ir, n) : m \in {"2024-01", "2024-02", "2024-03", "2024-13"},
                             ir \in BOOLEAN, n \in 0..MaxTop}

\* the life of the cache: the active file changes under the tools
Next ==
    \/ \E c \in XlsxContents, m \in 1..MaxMtime : Modify(PathA, c, m)
    \/ Delete(PathA)
    \/ \E p \in ProPaths : ProSetDataSource(p)
    \/ \E mapping \in OverrideInputs : ProOverrideSchema(mapping)
    \/ ProShowSchema
    \/ ProListMonths(MaxLimit)
    \/ ProGetInvoices(DefaultInvoiceArgs)
    \/ ProSummarize(DefaultSummaryArgs)

Spec == Init /\ [][Next]_vars

\* the queries over files that do not change
NextQuery ==
    \/ \E p \in {PathA, PathB} : ProSetDataSource(p)
    \/ \E mapping \in OverrideInputs : ProOverrideSchema(mapping)
    \/ ProShowSchema
    \/ \E limit \in (0 - 1)..MaxLimit : ProListMonths(limit)
    \/ \E a \in InvoiceInputs : ProGetInvoices(a)
    \/ \E a \in SummaryInputs : ProSummarize(a)

SpecQuery == Init /\ [][NextQuery]_vars

----------------------------------------------------------------------------
(* finance_tools: the fixed-layout "Online Retail" module *)

\* the index of the sheet "Online Retail" among sheets (0: there is none)
RetailSheet(sheets) ==
    IF \E i \in DOMAIN sheets : sheets[i].name = "Online Retail"
    THEN CHOOSE i \in DOMAIN sheets : sheets[i].name = "Online Retail"
    ELSE 0

\* dtype str on one InvoiceNo cell
AsStr(c) == IF c.k = "num" THEN Text(IntStr(c.n)) ELSE c

RetailRequired == {"InvoiceNo", "InvoiceDate", "UnitPrice", "Quantity"}

\* line 48: the rows without a missing InvoiceNo, InvoiceDate, UnitPrice or
\* Quantity
RetailKeep(df) ==
    {i \in RowIds(df) : \A r \in RetailRequired : ~IsMissing(Cell(df, i, r))}

\* the row ids of keep in ascending order
InOrder(keep) ==
    [k \in 1..Cardinality(keep) |->
        CHOOSE i \in keep : Cardinality({j \in keep : j < i}) = k - 1]

\* line 51: the rows ord of df with LineTotal = Quantity * UnitPrice
WithLineTotals(df, ord) ==
    [ok |-> TRUE, err |-> None,
     df |-> Df(Append(df.cols, "LineTotal"),
               [k \in DOMAIN ord |->
                   Append(df.rows[ord[k]],
                          Product(Cell(df, ord[k], "Quantity"),
                                  Cell(df, ord[k], "UnitPrice")))])]

\* lines 45-51 on the sheet as read
RetailCleaned(df) == WithLineTotals(df, InOrder(RetailKeep(df)))

\* lines 33-45: the frame read with its headers as written, InvoiceNo as
\* text, InvoiceDate parsed
RetailRead(raw) ==
    IF ~(RetailRequired \subseteq Range(raw.cols))
    THEN [ok |-> FALSE, err |-> "KeyError", df |-> NoDf]
    ELSE RetailCleaned(MapCol(MapCol(raw, "InvoiceNo", AsStr), "InvoiceDate", ToDatetime))

RetailSheetRead(sheets, i) ==
    IF i = 0 \/ ~sheets[i].ok
    THEN [ok |-> FALSE, err |-> "ValueError", df |-> NoDf]
    ELSE RetailRead(Df([j \in DOMAIN sheets[i].header |-> Join(sheets[i].header[j])],
                       sheets[i].rows))

\* lines 33-51 of _try_load on a file holding sheets
RetailFrame(p, sheets) ==
    IF Suffix(p) # ".xlsx"
    THEN [ok |-> FALSE, err |-> "ValueError", df |-> NoDf]
    ELSE RetailSheetRead(sheets, RetailSheet(sheets))

RetailFramesOf(contents) ==
    [p \in {PathA, PathR, PathB} |-> [c \in DOMAIN contents |-> RetailFrame(p, contents[c])]]

\* what lines 33-51 make of every path and file content
RetailFrames == RetailFramesOf(Contents)

\* lines 53-55 after the load ld
Cached(ds, ld, mtime) ==
    IF ~ld.ok THEN [ok |-> FALSE, err |-> ld.err, ds |-> ds]
    ELSE [ok |-> TRUE, err |-> None,
          ds |-> [ds EXCEPT !.df = ld.df, !.last_loaded_mtime = mtime]]

\* _try_load(): ok or the exception raised, and the RetailData after it
_try_load(ds, files) ==
    IF ds.path = None THEN [ok |-> FALSE, err |-> "ValueError", ds |-> ds]
    ELSE IF ~files[ds.path].exists THEN [ok |-> FALSE, err |-> "FileNotFoundError", ds |-> ds]
    ELSE IF ds.last_loaded_mtime # NoMtime /\ ds.last_loaded_mtime # 0
            /\ files[ds.path].mtime = ds.last_loaded_mtime
    THEN [ok |-> TRUE, err |-> None, ds |-> ds]
    ELSE Cached(ds, RetailFrames[ds.path][files[ds.path].content], files[ds.path].mtime)

BasicSourceSet(tl, p) ==
    /\ basic' = tl.ds
    /\ res' = [op |-> "basic.set_data_source", args |-> [path |-> p],
               prev |-> basic.path,
               out |-> IF tl.ok THEN Ok(p) ELSE Err(tl.err)]

\* set_data_source(file_path) of finance_tools
BasicSetDataSource(p) ==
    /\ BasicSourceSet(_try_load([basic EXCEPT !.path = p], fs), p)
    /\ UNCHANGED <<fs, pro, arg, out>>

BasicMonthsListed(tl, limit) ==
    /\ basic' = tl.ds
    /\ res' = [op |-> "basic.list_months", args |-> [limit |-> limit],
               out |-> IF tl.ok
                       THEN Ok(Take(SortedDesc(MonthSet(tl.ds.df, "InvoiceDate")), limit))
                       ELSE Err(tl.err)]

\* list_months(limit) of finance_tools
BasicListMonths(limit) ==
    /\ BasicMonthsListed(_try_load(basic, fs), limit)
    /\ UNCHANGED <<fs, pro, arg, out>>

RetailContents == {2, 5, 1}

InitBasic ==
    /\ fs \in {InitFiles(c) : c \in RetailContents}
    /\ pro = NewDataState
    /\ basic = NewRetailData
    /\ res = Idle
    /\ arg = None /\ out = None

\* both modules pointed at files that change
NextBasic ==
    \/ \E c \in RetailContents, m \in 1..MaxMtime : Modify(PathA, c, m)
    \/ \E p \in {PathA, PathR, PathB, PathGone} : BasicSetDataSource(p)
    \/ \E limit \in {0, MaxLimit} : BasicListMonths(limit)
    \/ \E p \in {PathA, PathB} : ProSetDataSource(p)

SpecBasic == InitBasic /\ [][NextBasic]_vars

----------------------------------------------------------------------------
(* Properties of the cache *)

QueryOps == {"show_detected_schema", "list_months", "get_invoices", "summarize_transactions"}

\* C1: a query on an existing source file reuses the cached table and schema
\* (manual overrides included) exactly when the file's modification time
\* equals the cached one; otherwise it loads the file again and infers the
\* schema afresh, so that no earlier manual override is left.
C1_ReuseIffSameMtime ==
    [][(res'.op \in QueryOps /\ pro.path # None /\ fs[pro.path].exists) =>
          IF pro.last_mtime = fs[pro.path].mtime
          THEN /\ pro' = pro
               /\ ~res'.reloaded
          ELSE LET ld == _load_any(pro, Parsed[fs[pro.path].content])
               IN  IF ld.ok
                   THEN /\ res'.reloaded
                        /\ pro' = StoreLoaded(ld.ds, ld.df, fs[pro.path].mtime)
                        /\ \A r \in RoleSet \ {"line_total"} :
                              pro'.schema[r] = _infer_schema(ld.df.cols)[r]
                   ELSE pro' = pro /\ ~res'.out.ok]_vars

\* C1 witness: a query has reloaded the modified workbook and answered, and
\* the schema it dropped held the manual override date -> "invoice".
C1_Witness ==
    /\ res.op = "list_months"
    /\ res.reloaded /\ res.out.ok
    /\ res.dropped["date"] = "invoice"
    /\ pro.schema["date"] = "date"
    /\ pro.last_mtime = MaxMtime

\* the table and schema _ensure_loaded stores for the file at path p
FreshState(ds, files, p) ==
    LET at == [ds EXCEPT !.path = p]
        ld == _load_any(at, Parsed[files[p].content])
    IN  StoreLoaded(ld.ds, ld.df, files[p].mtime)

\* C2: in both modules, after set_data_source succeeds with a path other
\* than the previously active one, the cached table (and schema) is the one
\* derived from that file, never the previous source's.
C2_NewPathNewTable ==
    /\ (res.op = "set_data_source" /\ res.out.ok /\ res.prev # res.args.path) =>
          /\ pro.path = res.args.path
          /\ pro.df = FreshState(pro, fs, res.args.path).df
          /\ pro.schema = FreshState(pro, fs, res.args.path).schema
    /\ (res.op = "basic.set_data_source" /\ res.out.ok /\ res.prev # res.args.path) =>
          /\ basic.path = res.args.path
          /\ basic.df = RetailFrames[res.args.path][fs[res.args.path].content].df

----------------------------------------------------------------------------
(* Properties of the queries of finance_tools_pro *)

\* the scenario table of the specification is the cached table, with the
\* schema inference gives it (no customer role)
ScenarioSchema ==
    [invoice_id |-> "invoice", date |-> "date", quantity |-> "qty", unit_price |-> "price",
     line_total |-> "__computed_total__", customer |-> None, country |-> None,
     description |-> None]

ScenarioLoaded ==
    /\ pro.path = PathA /\ fs[PathA].content = 1
    /\ pro.sheet_name = "Sales"
    /\ pro.df.loaded /\ Len(pro.df.rows) = 3
    /\ pro.schema = ScenarioSchema

SummaryAnswered ==
    /\ res.op = "summarize_transactions"
    /\ res.out.ok
    /\ "revenue" \in DOMAIN res.out.value

\* C6 as stated: summarize_transactions("2024-01", top_n_clients=1) on the
\* scenario table returns revenue 25.0 and no top client.
C6_ScenarioRevenue25 ==
    (ScenarioLoaded /\ res.op = "summarize_transactions"
        /\ res.args = SummaryArgs("2024-01", TRUE, 1)) =>
        /\ SummaryAnswered
        /\ res.out.value.revenue = 25
        /\ res.out.value.top_clients = <<>>

\* C6 amended: summarize_transactions("2024-01", top_n_clients=1) on the
\* scenario table, returns included, returns revenue 15.0 (20 - 10 + 5, the
\* return counted negative) and no top client.
C6_ScenarioRevenue15 ==
    (ScenarioLoaded /\ res.op = "summarize_transactions"
        /\ res.args = SummaryArgs("2024-01", TRUE, 1)) =>
        /\ SummaryAnswered
        /\ res.out.value.revenue = 15
        /\ res.out.value.top_clients = <<>>

C6_Witness ==
    /\ ScenarioLoaded
    /\ res.op = "summarize_transactions"
    /\ res.args = SummaryArgs("2024-01", TRUE, 1)
    /\ res.out.ok

\* the rows whose quantity, read as a number, is negative
ReturnRows(df, q) ==
    {i \in RowIds(df) : ToNumeric(Cell(df, i, q)).k = "num" /\ ToNumeric(Cell(df, i, q)).n < 0}

\* the rows of the month that are no returns, rows without a numeric
\* quantity included
MonthSales(df, sch, month) ==
    {i \in RowIds(df) : /\ Cell(df, i, sch["date"]).k = "ts"
                        /\ InBounds(Cell(df, i, sch["date"]).n, _month_bounds(month))}
        \ ReturnRows(df, sch["quantity"])

\* C5: with include_returns=False and a quantity role, no row of negative
\* quantity is among the rows get_invoices aggregates or counts towards the
\* revenue and the top-client totals of summarize_transactions; a row
\* whose quantity is missing or unparseable counts as quantity 0 and is kept.
C5_ReturnsExcluded ==
    /\ (res.op = "get_invoices" /\ ~res.args.include_returns
            /\ Mapped(pro.df, pro.schema, "quantity")) =>
          /\ res.out.kept \cap ReturnRows(pro.df, pro.schema["quantity"]) = {}
          /\ (res.out.ok \/ res.out.kept # {}) =>
                \A i \in RowIds(pro.df) \ res.out.kept :
                    \/ i \in ReturnRows(pro.df, pro.schema["quantity"])
                    \/ res.args.date_range.kind # "none"
                    \/ res.args.customer # None
    /\ (SummaryAnswered /\ ~res.args.include_returns
            /\ Mapped(pro.df, pro.schema, "quantity")) =>
          LET sales == MonthSales(pro.df, pro.schema, res.args.month)
              totals == SummaryTotals(pro.df, pro.schema, sales)
              tc == res.out.value.top_clients
          IN  /\ res.out.value.revenue = SumOf(totals, sales)
              /\ \A k \in DOMAIN tc :
                    tc[k].total =
                        SumOf(totals, {i \in sales :
                            CellStr(pro.df, pro.schema["customer"],
                                    Cell(pro.df, i, pro.schema["customer"])) = tc[k].customer})

\* C5 witness: the ledger of March without returns: the row of unparseable
\* quantity "n/a" (amount 3) is counted, the return (amount -4) is not.
C5_Witness ==
    /\ SummaryAnswered
    /\ pro.sheet_name = "Ledger" /\ pro.path = PathA
    /\ pro.schema["quantity"] = "qty" /\ pro.schema["line_total"] = "amount"
    /\ res.args.month = "2024-03" /\ ~res.args.include_returns
    /\ res.out.value.revenue = 10

\* the invoice ids of the rows get_invoices has left after filtering
InvoiceKeys(df, sch, kept) ==
    {CellStr(df, sch["invoice_id"], Cell(df, i, sch["invoice_id"])) :
        i \in {j \in kept : ~IsMissing(Cell(df, j, sch["invoice_id"]))}}

InvoiceRows(df, sch, kept, id) ==
    {i \in kept : /\ ~IsMissing(Cell(df, i, sch["invoice_id"]))
                  /\ CellStr(df, sch["invoice_id"], Cell(df, i, sch["invoice_id"])) = id}

\* the aggregates C3 describes: per invoice id, the sum of the resolved
\* totals and the number of rows
ExpectedAggregates(df, sch, kept) ==
    {[invoice_id |-> id,
      total_amount |-> SumOf(SummaryTotals(df, sch, kept), InvoiceRows(df, sch, kept, id)),
      line_count |-> Cardinality(InvoiceRows(df, sch, kept, id))] :
        id \in InvoiceKeys(df, sch, kept)}

ReturnedAggregates(value) ==
    {[invoice_id |-> value[k].invoice_id, total_amount |-> value[k].total_amount,
      line_count |-> value[k].line_count] : k \in DOMAIN value}

\* C3: get_invoices with an invoice_id role returns, for the rows left
\* after filtering, one aggregate per distinct invoice id with the sum of
\* its totals and its number of rows; on the scenario rows that is A1 10.0
\* with 2 lines and B2 5.0 with 1 line, and without returns A1 20.0 with 1 line.
C3_InvoiceAggregates ==
    /\ (res.op = "get_invoices" /\ res.out.kept # {}
            /\ Mapped(pro.df, pro.schema, "invoice_id")) =>
          /\ res.out.ok
          /\ ReturnedAggregates(res.out.value)
                = ExpectedAggregates(pro.df, pro.schema, res.out.kept)
    /\ (res.op = "get_invoices" /\ ScenarioLoaded
            /\ res.args = InvoiceArgs(NoRange, None, TRUE, MaxResults)) =>
          /\ res.out.ok
          /\ ReturnedAggregates(res.out.value)
                = {[invoice_id |-> "A1", total_amount |-> 10, line_count |-> 2],
                   [invoice_id |-> "B2", total_amount |-> 5, line_count |-> 1]}
    /\ (res.op = "get_invoices" /\ ScenarioLoaded
            /\ res.args = InvoiceArgs(NoRange, None, FALSE, MaxResults)) =>
          /\ res.out.ok
          /\ [invoice_id |-> "A1", total_amount |-> 20, line_count |-> 1]
                \in ReturnedAggregates(res.out.value)

\* the number of aggregates get_invoices has to return for the rows kept
AggregateCount(df, sch, kept) ==
    IF Mapped(df, sch, "invoice_id") THEN Cardinality(InvoiceKeys(df, sch, kept))
    ELSE Cardinality(kept)

Min(a, b) == IF a < b THEN a ELSE b

\* C9: the sequence get_invoices returns is in descending invoice_date
\* order when a date role is mapped and in descending total_amount order
\* otherwise, holds min(max_results, number of aggregates) elements for
\* max_results >= 0, and is empty, without failure, when no row is left.
C9_InvoicesSortedTruncated ==
    (res.op = "get_invoices" /\ res.args.max_results >= 0
        /\ res.out.err \notin {"ValueError", "TypeError", "FileNotFoundError"}) =>
        /\ res.out.ok
        /\ Len(res.out.value)
              = Min(res.args.max_results,
                    AggregateCount(pro.df, pro.schema, res.out.kept))
        /\ \A k \in 1..(Len(res.out.value) - 1) :
              IF Mapped(pro.df, pro.schema, "date")
              THEN ~StrLess(res.out.value[k].invoice_date, res.out.value[k + 1].invoice_date)
              ELSE res.out.value[k].total_amount >= res.out.value[k + 1].total_amount
        /\ res.out.kept = {} => res.out.value = <<>>

\* the months of the date column's values that are timestamps
PresentMonths(df, d) ==
    {PeriodStr(Cell(df, i, d)) : i \in {j \in RowIds(df) : Cell(df, j, d).k = "ts"}}

\* C10: list_months returns the distinct months of the non-missing dates,
\* newest first, cut to limit for limit >= 0 (a missing or unparseable date
\* gives no entry), and the empty sequence when no date role is mapped.
C10_ListMonths ==
    (res.op = "list_months" /\ res.out.ok /\ res.args.limit >= 0) =>
        IF Mapped(pro.df, pro.schema, "date")
        THEN res.out.value
                = Take(SortedDesc(PresentMonths(pro.df, pro.schema["date"])), res.args.limit)
        ELSE res.out.value = <<>>

\* the position in the table of the first of the rows ids whose customer is key
FirstSeen(df, c, ids, key) ==
    CHOOSE i \in ids : /\ Cell(df, i, c) = key
                       /\ \A j \in ids : Cell(df, j, c) = key => i <= j

\* the groups ranked by summed total, equal totals in first-seen order
RECURSIVE RankFirstSeen(_, _, _, _)
RankFirstSeen(df, c, ids, groups) ==
    IF groups = {} THEN <<>>
    ELSE LET top == CHOOSE g \in groups : \A h \in groups \ {g} :
                        \/ g.total > h.total
                        \/ /\ g.total = h.total
                           /\ FirstSeen(df, c, ids, g.key) < FirstSeen(df, c, ids, h.key)
         IN  <<[customer |-> CellStr(df, c, top.key), total |-> top.total]>>
                 \o RankFirstSeen(df, c, ids, groups \ {top})

ExpectedTopClients(df, sch, ids, n) ==
    Take(RankFirstSeen(df, sch["customer"], ids,
                       ClientGroups(df, sch["customer"], ids, SummaryTotals(df, sch, ids))), n)

\* C11: with a customer role, top_clients of summarize_transactions are the
\* month's customers ranked by summed total descending, cut to the top N,
\* customers of equal summed total in the order they are first seen in the
\* month's rows.
C11_TopClientsFirstSeen ==
    (SummaryAnswered /\ Mapped(pro.df, pro.schema, "customer")
        /\ res.args.top_n_clients >= 0) =>
        res.out.value.top_clients
            = ExpectedTopClients(pro.df, pro.schema,
                                 SummaryRows(pro.df, pro.schema, _month_bounds(res.args.month),
                                             res.args.include_returns),
                                 res.args.top_n_clients)

\* the entries of a mapping override_schema has to refuse
BadKey(entry) == entry[1] \notin RoleSet
BadColumn(entry, valid) == ~BadKey(entry) /\ entry[2] # None /\ entry[2] \notin valid
BadEntries(m, valid) == {j \in DOMAIN m : BadKey(m[j]) \/ BadColumn(m[j], valid)}
FirstBad(m, valid) == CHOOSE j \in BadEntries(m, valid) : \A k \in BadEntries(m, valid) : j <= k

\* override_schema got past _ensure_loaded
OverrideRan ==
    /\ res.op = "override_schema"
    /\ res.out.err \notin {"ValueError", "FileNotFoundError", "ParserError"}

\* C12: override_schema fails with the unknown-key error when a key is none
\* of the 8 roles, with the column-not-found error when a value other than
\* None is no column of the current table, and otherwise succeeds with
\* every role of the mapping set to its column, None unsetting the role.
C12_OverrideValidates ==
    OverrideRan =>
        LET m == res.args.mapping
            valid == Range(pro.df.cols)
        IN  IF BadEntries(m, valid) # {}
            THEN /\ ~res.out.ok
                 /\ res.out.err = IF BadKey(m[FirstBad(m, valid)])
                                  THEN "ValueError: Unknown schema key"
                                  ELSE "ValueError: Column not found"
            ELSE /\ res.out.ok
                 /\ res.out.value = pro.schema
                 /\ \A j \in DOMAIN m : pro.schema[m[j][1]] = m[j][2]

\* C12 witness: a null value was accepted and has unset the role line_total
C12_Witness ==
    /\ OverrideRan /\ res.out.ok
    /\ res.args.mapping = << <<"line_total", None>> >>
    /\ pro.schema["line_total"] = None
    /\ pro.df.loaded

\* a date_range with a month token that does not parse
InvalidRange(dr) == dr.kind # "none" /\ ~_date_range_bounds(dr).ok

\* C13: get_invoices on a loaded source with a date_range holding an
\* unparsable month token fails with the error of the range, whether a date
\* role is mapped or not, and leaves the cached table and schema as they were.
C13_InvalidRangeFails ==
    [][(res'.op = "get_invoices" /\ InvalidRange(res'.args.date_range)
            /\ pro.df.loaded /\ fs[pro.path].exists
            /\ pro.last_mtime = fs[pro.path].mtime) =>
          /\ ~res'.out.ok
          /\ res'.out.err = "ValueError"
          /\ pro'.df = pro.df
          /\ pro'.schema = pro.schema]_vars

\* the sheets of a workbook that parse
ParsingSheets(sheets) == {i \in DOMAIN sheets : sheets[i].ok}

\* the sheet C14 says the loader keeps: the earliest of the highest-scoring
\* sheets that parse, and the first sheet when none parses
ExpectedSheet(sheets) ==
    IF ParsingSheets(sheets) = {} THEN 1
    ELSE CHOOSE i \in ParsingSheets(sheets) :
            \A j \in ParsingSheets(sheets) :
                \/ sheets[i].score > sheets[j].score
                \/ sheets[i].score = sheets[j].score /\ i <= j

\* C14: loading a workbook with at least one sheet never fails; the sheet
\* kept is the highest-scoring one that parses (the earliest on a tie),
\* sheets that do not parse are skipped, and when none parses the first
\* sheet's table is returned.
C14_WorkbookAlwaysLoads ==
    (res.op = "set_data_source" /\ Suffix(res.args.path) \in {".xlsx", ".xls"}
        /\ _is_within_base(res.args.path) /\ fs[res.args.path].exists
        /\ Parsed[fs[res.args.path].content] # <<>>) =>
        /\ res.out.ok
        /\ pro.sheet_name
              = Parsed[fs[res.args.path].content]
                      [ExpectedSheet(Parsed[fs[res.args.path].content])].name

\* C15: whenever line_total is mapped to the computed column, each of its
\* values is the numeric product of the columns now mapped to quantity and
\* unit_price, also after override_schema has remapped one of them.
C15_ComputedTotalCurrent ==
    (pro.df.loaded /\ pro.schema["line_total"] = "__computed_total__") =>
        /\ Mapped(pro.df, pro.schema, "quantity")
        /\ Mapped(pro.df, pro.schema, "unit_price")
        /\ \A i \in RowIds(pro.df) :
              Cell(pro.df, i, "__computed_total__")
                  = Product(ToNumeric(Cell(pro.df, i, pro.schema["quantity"])),
                            ToNumeric(Cell(pro.df, i, pro.schema["unit_price"])))

\* C16: whenever a date role is mapped, by inference or by override_schema,
\* every value of the mapped column is a timestamp or missing.
C16_DateColumnCoerced ==
    (pro.df.loaded /\ Mapped(pro.df, pro.schema, "date")) =>
        \A i \in RowIds(pro.df) :
            Cell(pro.df, i, pro.schema["date"]).k \in {"ts", "nat", "nan"}

\* C17: an override_schema call that fails on one entry of its mapping
\* leaves the schema as it was before the call.
C17_OverrideAllOrNothing ==
    [][(res'.op = "override_schema" /\ ~res'.out.ok
            /\ pro.df.loaded /\ fs[pro.path].exists
            /\ pro.last_mtime = fs[pro.path].mtime) =>
          pro'.schema = pro.schema]_vars

\* C18: a set_data_source call that fails, in either module, leaves the
\* data-source state (path, table, modification time, schema, sheet name)
\* as it was before the call.
C18_FailedSetKeepsState ==
    [][/\ (res'.op = "set_data_source" /\ ~res'.out.ok) => pro' = pro
       /\ (res'.op = "basic.set_data_source" /\ ~res'.out.ok) => basic' = basic]_vars

\* the names of the sheets of the file at path p
SheetNames(files, p) ==
    {Parsed[files[p].content][i].name : i \in DOMAIN Parsed[files[p].content]}

\* C19: the sheet name held for a loaded source belongs to that source: it
\* names a sheet of the active workbook, and there is none while the active
\* source is a CSV file, whatever was the source before.
C19_SheetOfActiveSource ==
    (pro.df.loaded /\ pro.path # None) =>
        IF Suffix(pro.path) = ".csv"
        THEN pro.sheet_name = None
        ELSE pro.sheet_name \in SheetNames(fs, pro.path)

\* the line_count values of a returned sequence summed
LineCounts(value) == SumOf([k \in DOMAIN value |-> value[k].line_count], DOMAIN value)

\* C20: get_invoices loses no row in grouping: the line_count values of the
\* aggregates, when none is cut off, sum to the number of rows left after
\* the filters, rows without an invoice id included, and without an
\* invoice_id role every row left is an aggregate of its own with line_count
\* 1, keyed by its 0-based position.
C20_NoRowLost ==
    (res.op = "get_invoices" /\ res.out.kept # {}) =>
        /\ res.out.ok
        /\ Len(res.out.value) < res.args.max_results =>
              LineCounts(res.out.value) = Cardinality(res.out.kept)
        /\ ~Mapped(pro.df, pro.schema, "invoice_id") =>
              \A k \in DOMAIN res.out.value :
                  /\ res.out.value[k].line_count = 1
                  /\ res.out.value[k].invoice_id \in 0..(Cardinality(res.out.kept) - 1)

=============================================================================
